---- MODULE Spec2Model ----
(***************************************************************************)
(* A model of src/MouseControl.js: THREE.MouseControl (the gesture         *)
(* pipeline), THREE.TouchControl (the touch dispatch layer) and the three  *)
(* behaviours THREE.RotationControl (orbit), THREE.PanControl and          *)
(* THREE.ZoomControl, for one controller instance driving one or more      *)
(* objects of a host scene.                                                *)
(*                                                                         *)
(* Numbers.  JavaScript numbers are modelled as exact rationals <<n, d>>   *)
(* in lowest terms with d > 0; <<1, 0>> is Infinity and <<0, 0>> is NaN    *)
(* (they arise only as maxDistance and as the pinch ratio 0/0).  Square    *)
(* roots are exact: every length the model takes is the root of a perfect  *)
(* square, which the inputs below guarantee (objects, targets and pointer  *)
(* positions lie on an integer lattice; the handlers that would take an    *)
(* irrational length are not enabled).                                     *)
(*                                                                         *)
(* Angles.  RotationControl's angles are counted in quarter turns: the     *)
(* model's angle a stands for a * PI/2 radians, so the model's speed s of  *)
(* a RotationControl stands for the field speed = s * PI/2.  A rotation    *)
(* by a whole number of quarter turns maps the lattice to itself.          *)
(***************************************************************************)
EXTENDS Integers, Sequences, FiniteSets, TLC

(* ----------------------------- rationals ------------------------------ *)

Abs(i) == IF i < 0 THEN -i ELSE i

RECURSIVE GCD(_, _)
GCD(a, b) == IF b = 0 THEN a ELSE GCD(b, a % b)

\* The arithmetic is written as functions, which take their arguments by
\* value: an operand is computed before the operation on it starts.
Rat == Int \X Int

\* n/d in lowest terms, d # 0
Lowest[n \in Int, d \in Int] ==
    LET g == GCD(Abs(n), Abs(d))
        s == IF d < 0 THEN -1 ELSE 1
    IN  <<(s * n) \div g, (s * d) \div g>>

Q(n, d) == Lowest[n, d]

Num(i) == <<i, 1>>
Zero == Num(0)
One == Num(1)
Infinity == <<1, 0>>
NaN == <<0, 0>>

IsFinite(p) == p[2] # 0
IsInt(p) == p[2] = 1

Sum[p \in Rat, q \in Rat] == Q(p[1] * q[2] + q[1] * p[2], p[2] * q[2])
Difference[p \in Rat, q \in Rat] == Q(p[1] * q[2] - q[1] * p[2], p[2] * q[2])
Product[p \in Rat, q \in Rat] == Q(p[1] * q[1], p[2] * q[2])

\* JavaScript's a / b: x/0 is +-Infinity and 0/0 is NaN
Quotient[p \in Rat, q \in Rat] ==
    IF q[1] = 0
    THEN IF p[1] = 0 THEN NaN ELSE IF p[1] > 0 THEN Infinity ELSE <<-1, 0>>
    ELSE Q(p[1] * q[2], p[2] * q[1])

\* a/b < c/d for positive b and d, by their continued fractions: no product
\* of a numerator and a denominator is formed
RECURSIVE LessFraction(_, _, _, _)
LessFraction(a, b, c, d) ==
    IF a \div b # c \div d THEN a \div b < c \div d
    ELSE IF c % d = 0 THEN FALSE
    ELSE IF a % b = 0 THEN TRUE
    ELSE LessFraction(d, c % d, b, a % b)

\* p < q; a comparison with NaN is false, Infinity is above every finite
\* number
Less[p \in Rat, q \in Rat] ==
    CASE p = NaN \/ q = NaN -> FALSE
      [] ~IsFinite(p) -> p[1] < 0 /\ q # p
      [] ~IsFinite(q) -> q[1] > 0
      [] OTHER -> LessFraction(p[1], p[2], q[1], q[2])

QAdd(p, q) == Sum[p, q]
QSub(p, q) == Difference[p, q]
QMul(p, q) == Product[p, q]
QDiv(p, q) == Quotient[p, q]
QLt(p, q) == Less[p, q]
QLe(p, q) == p # NaN /\ q # NaN /\ (p = q \/ QLt(p, q))

\* JavaScript truthiness of a number: 0 and NaN are falsy
Truthy(p) == p # Zero /\ p # NaN

\* floor of the square root of a natural number, by bisection
RECURSIVE SqrtBetween(_, _, _)
SqrtBetween(k, lo, hi) ==
    IF hi - lo <= 1 THEN lo
    ELSE LET mid == (lo + hi) \div 2
         IN  IF mid * mid <= k THEN SqrtBetween(k, mid, hi)
             ELSE SqrtBetween(k, lo, mid)

ISqrt(k) == IF k < 2 THEN k ELSE SqrtBetween(k, 1, IF k < 46341 THEN k ELSE 46341)

IsSquare(p) == p[1] >= 0 /\ ISqrt(p[1]) * ISqrt(p[1]) = p[1]
                         /\ ISqrt(p[2]) * ISqrt(p[2]) = p[2]

\* Math.sqrt, exact: defined on the squares of rationals only
Root[p \in Rat] == CHOOSE r \in {<<ISqrt(p[1]), ISqrt(p[2])>>} : QMul(r, r) = p

QSqrt(p) == Root[p]

(* ------------------------------ vectors ------------------------------- *)

Vector2(x, y) == [x |-> x, y |-> y]
Vector3(x, y, z) == [x |-> x, y |-> y, z |-> z]
Origin == Vector3(Zero, Zero, Zero)

P3(x, y, z) == Vector3(Num(x), Num(y), Num(z))

Vectors == [x : Rat, y : Rat, z : Rat]

\* The methods of THREE.Vector3, as functions of the vectors they read
add[a \in Vectors, b \in Vectors] ==
    Vector3(QAdd(a.x, b.x), QAdd(a.y, b.y), QAdd(a.z, b.z))
sub[a \in Vectors, b \in Vectors] ==
    Vector3(QSub(a.x, b.x), QSub(a.y, b.y), QSub(a.z, b.z))
multiplyScalar[a \in Vectors, s \in Rat] ==
    Vector3(QMul(a.x, s), QMul(a.y, s), QMul(a.z, s))
dot[a \in Vectors, b \in Vectors] ==
    QAdd(QAdd(QMul(a.x, b.x), QMul(a.y, b.y)), QMul(a.z, b.z))
cross[a \in Vectors, b \in Vectors] ==
    Vector3(QSub(QMul(a.y, b.z), QMul(a.z, b.y)),
            QSub(QMul(a.z, b.x), QMul(a.x, b.z)),
            QSub(QMul(a.x, b.y), QMul(a.y, b.x)))
lengthSq[a \in Vectors] == dot[a, a]
length[a \in Vectors] == QSqrt(lengthSq[a])
distanceToSquared[a \in Vectors, b \in Vectors] == lengthSq[sub[a, b]]

\* Vector3.normalize: divideScalar(length() || 1), so the zero vector stays
normalize[a \in Vectors] ==
    IF length[a] = Zero THEN a ELSE multiplyScalar[a, QDiv(One, length[a])]

\* Vector3.setLength: normalize().multiplyScalar(l)
setLength[a \in Vectors, l \in Rat] == multiplyScalar[normalize[a], l]

\* cos and sin of k quarter turns
CosQ(k) == CASE k % 4 = 0 -> 1 [] k % 4 = 2 -> -1 [] OTHER -> 0
SinQ(k) == CASE k % 4 = 1 -> 1 [] k % 4 = 3 -> -1 [] OTHER -> 0

\* Quaternion.setFromAxisAngle(axis, k quarter turns) applied to v
\* (Vector3.applyQuaternion), by Rodrigues' formula; the rotation built from
\* a zero axis is taken to be the identity
applyQuaternion[v \in Vectors, axis \in Vectors, k \in Int] ==
    IF axis = Origin THEN v
    ELSE add[add[multiplyScalar[v, Num(CosQ(k))],
                 multiplyScalar[cross[axis, v], Num(SinQ(k))]],
             multiplyScalar[axis, QMul(dot[axis, v], Num(1 - CosQ(k)))]]

(* ------------------------------ bounds -------------------------------- *)

\* objects registered with the controller: 1..n, n <= MaxObjects
MaxObjects == 2
\* page coordinates of pointer events and touch contacts: 0..MaxCoord
MaxCoord == 1
\* contacts in a touch list: 0..MaxTouches
MaxTouches == 2
\* handler calls in one behaviour
MaxSteps == 3

(* ----------------------------- constants ------------------------------ *)

\* THREE.MouseControl.ButtonEnum
left == 0
middle == 1
right == 2
ButtonEnum == {left, middle, right}

\* THREE.MouseControl.EPS
EPS == Q(1, 1000000)

\* the classes: the touch dispatch layer on its own and the three behaviours
Kinds == {"Touch", "Rotation", "Pan", "Zoom"}
Behaviours == {"Rotation", "Pan", "Zoom"}
\* PanControl extends MouseControl: it registers no touch listener
TouchKinds == {"Touch", "Rotation", "Zoom"}

Coords == 0..MaxCoord

\* dynamicDampingFactor as the host sets it: off, or on.  A RotationControl
\* decays its angle by sqrt(1 - f), which is rational for f = 3/4 and f = 1
DampingFactors(k) ==
    CASE k = "Rotation" -> {Zero, Q(3, 4), One}
      [] k = "Touch" -> {Zero}
      [] OTHER -> {Zero, Q(1, 2)}

\* <<minDistance, maxDistance>> of a ZoomControl: the defaults, and a range
DistanceRanges(k) ==
    IF k = "Zoom" THEN {<<Zero, Infinity>>, <<Num(1), Num(3)>>}
    ELSE {<<Zero, Infinity>>}

\* where the host puts object i before it registers it: on the z axis,
\* looking at the origin, y up
InitialPosition(i) == P3(0, 0, 2 * i)
InitialUp == P3(0, 1, 0)

\* the points a host passes to setTarget or moves an object to
HostPoints == {P3(0, 0, 0), P3(0, 0, 2)}

\* wheel events <<deltaY, deltaMode>>: half a unit of drag in pixel, line
\* and page mode, a whole unit back, and an unknown mode
WheelEvents == {<<2000, 0>>, <<-4000, 0>>, <<50, 1>>, <<-20, 2>>, <<2000, 3>>}

(* ------------------------------- state -------------------------------- *)

VARIABLES
    kind,                  \* the class of the controller
    speed,                 \* this.speed
    dynamicDampingFactor,  \* this.dynamicDampingFactor
    minDistance,           \* ZoomControl: this.minDistance
    maxDistance,           \* ZoomControl: this.maxDistance
    button_,               \* this.button_
    contextMenu,           \* emptyHandler_ is a contextmenu listener of dom_
    rect_,                 \* this.rect_
    _mouse,                \* this._mouse: capture, curr, prev
    _objInfo,              \* this._objInfo: per object last, pos, up, target
    scene,                 \* the host's objects: position and up of each
    touchStart_,           \* ZoomControl: this.touchStart_
    touchEnd_,             \* ZoomControl: this.touchEnd_
    op,                    \* the handler or method that ran last, with its input
    out,                   \* the events it dispatched, in order
    calls,                 \* the zoom steps it made: doZoom_ and zoom_ calls
    ret,                   \* what it returned: <<>> is undefined
    thrown,                \* whether it threw
    lifecycle,             \* the last of moveStart/moveStop dispatched so far
    steps,                 \* handler calls so far
    gesture                \* SpecGesture: the counts of one press..release

vars == <<kind, speed, dynamicDampingFactor, minDistance, maxDistance, button_,
          contextMenu, rect_, _mouse, _objInfo, scene, touchStart_, touchEnd_,
          op, out, calls, ret, thrown, lifecycle, steps, gesture>>

config == <<kind, speed, dynamicDampingFactor, minDistance, maxDistance, rect_>>

Objects == DOMAIN _objInfo
\* an object of the scene that was not registered with the controller
Stranger == 0

(* --------------------- the controller, as a record --------------------- *)

\* What a handler reads and writes, threaded through the methods it calls.
\* A method takes the controller as self and reads it once: its body is
\* written over s, the value of self (CHOOSE r \in {body : s \in {self}})
Self == [mouse |-> _mouse, info |-> _objInfo, scene |-> scene,
         touchStart_ |-> touchStart_, touchEnd_ |-> touchEnd_,
         out |-> <<>>, calls |-> <<>>, thrown |-> FALSE]

dispatchEvent(s, e) == [s EXCEPT !.out = Append(@, e)]

\* static _getEye(info)
_getEye(s, i) == sub[s.scene[i].position, s.info[i].target]

\* a faulty getObjectInfo_: the loop's last entry is returned when none matches
getObjectInfo_Last(obj) ==
    IF obj \in Objects THEN <<obj>> ELSE <<Cardinality(Objects)>>

\* getObjectInfo_(obj): the index of obj's entry, or <<>>
getObjectInfo_(obj) == IF obj \in Objects THEN <<obj>> ELSE <<>>

\* getRect()
getRect == rect_

\* MouseControl._offsetCalc(x, y)
MouseOffsetCalc(x, y) ==
    LET r == getRect
    IN  Vector2(Q(x - r.left, r.width), Q(y - r.top, r.height))

\* RotationControl._offsetCalc(x, y): w = r.width >> 1
RotationOffsetCalc(x, y) ==
    LET r == getRect
        w == r.width \div 2
    IN  Vector2(Q(x - w - r.left, w), Q(r.height + (r.top - y) * 2, r.width))

_offsetCalc(x, y) ==
    IF kind = "Rotation" THEN RotationOffsetCalc(x, y) ELSE MouseOffsetCalc(x, y)

\* _saveMove(opt_x, opt_y); xy is <<>> for a call without arguments
_saveMove(self, xy) ==
    CHOOSE r \in {
        IF xy # <<>> /\ (xy[1] # 0 \/ xy[2] # 0)
        THEN [s EXCEPT !.mouse.curr = _offsetCalc(xy[1], xy[2])]
        ELSE [s EXCEPT !.mouse.prev = s.mouse.curr] : s \in {self}} : TRUE

\* _dispatchMove(e)
_dispatchMove(self, e) ==
    CHOOSE r \in {
        dispatchEvent(s, [type |-> e, curr |-> s.mouse.curr,
                          prev |-> s.mouse.prev]) : s \in {self}} : TRUE

\* a faulty _checkChange: the position reported is not remembered
_checkChange_NoCopy(self, i) ==
    CHOOSE r \in {
        IF QLe(distanceToSquared[s.info[i].last.pos, s.scene[i].position], EPS)
        THEN s
        ELSE [s EXCEPT !.out = Append(@, [type |-> "movechange",
                                          lookAt |-> s.info[i].target,
                                          object |-> i,
                                          position |-> s.info[i].last.pos])]
        : s \in {self}} : TRUE

\* _checkChange(info)
_checkChange(self, i) ==
    CHOOSE r \in {
        IF QLe(distanceToSquared[s.info[i].last.pos, s.scene[i].position], EPS)
        THEN s
        ELSE [s EXCEPT !.out = Append(@, [type |-> "movechange",
                                          lookAt |-> s.info[i].target,
                                          object |-> i,
                                          position |-> s.info[i].last.pos]),
                       !.info[i].last.pos = s.scene[i].position]
        : s \in {self}} : TRUE

\* _setEye(info, eye); obj.lookAt turns the object and moves nothing
_setEye(self, i, eye) ==
    CHOOSE r \in {
        _checkChange([s EXCEPT !.scene[i].position = add[s.info[i].target, eye]],
                     i) : s \in {self}} : TRUE

\* _startMove(x, y)
_startMove(self, x, y) == _saveMove(_saveMove(self, <<x, y>>), <<>>)

\* a faulty _stopMove: RotationControl's override does not save the position
_stopMove_NoSave(self) == _dispatchMove(self, "movestop")

\* _stopMove(): RotationControl saves the position first
_stopMove(self) ==
    IF kind = "Rotation"
    THEN _dispatchMove(_saveMove(self, <<>>), "movestop")
    ELSE _dispatchMove(self, "movestop")

(* --------------------------- the behaviours --------------------------- *)

\* a vector along one axis of the lattice, or zero
AxisAligned(v) == Cardinality({c \in {"x", "y", "z"} : v[c] # Zero}) <= 1

\* a faulty rotate_: the stored angle does not decay
rotate_NoDecay(self, direction, i) ==
    CHOOSE r \in {
        LET eye == _getEye(s, i)
            len == length[d]
            f == dynamicDampingFactor
            up == normalize[s.scene[i].up]
            sideways == setLength[normalize[cross[up, normalize[eye]]], d.x]
            axis == normalize[cross[add[setLength[up, d.y], sideways], eye]]
            \* the local angle: the drag's length, else f && info.last.angle
            angle == IF Truthy(len) THEN len
                     ELSE IF Truthy(f) THEN s.info[i].last.angle ELSE f
            qAxis == IF Truthy(len) THEN axis ELSE s.info[i].last.axis
            qAngle == IF Truthy(len) THEN QMul(len, speed)
                      ELSE s.info[i].last.angle
        IN  IF ~Truthy(angle)
            THEN [s EXCEPT !.info[i].last.axis = qAxis,
                           !.info[i].last.angle = qAngle]
            ELSE _setEye([s EXCEPT !.info[i].last.axis = qAxis,
                                   !.info[i].last.angle = qAngle,
                                   !.scene[i].up =
                                       applyQuaternion[@, qAxis, qAngle[1]]],
                         i, applyQuaternion[eye, qAxis, qAngle[1]])
        : s \in {self}, d \in {direction}} : TRUE

\* RotationControl.rotate_(direction, info); angles in quarter turns
rotate_(self, direction, i) ==
    CHOOSE r \in {
        LET eye == _getEye(s, i)
            len == length[d]
            f == dynamicDampingFactor
            up == normalize[s.scene[i].up]
            sideways == setLength[normalize[cross[up, normalize[eye]]], d.x]
            axis == normalize[cross[add[setLength[up, d.y], sideways], eye]]
            \* the local angle: the drag's length, else f && info.last.angle
            angle == IF Truthy(len) THEN len
                     ELSE IF Truthy(f) THEN s.info[i].last.angle ELSE f
            qAxis == IF Truthy(len) THEN axis ELSE s.info[i].last.axis
            qAngle == IF Truthy(len) THEN QMul(len, speed)
                      ELSE IF Truthy(angle)
                      THEN QMul(s.info[i].last.angle, QSqrt(QSub(One, f)))
                      ELSE s.info[i].last.angle
        IN  IF ~Truthy(angle)
            THEN [s EXCEPT !.info[i].last.axis = qAxis,
                           !.info[i].last.angle = qAngle]
            ELSE _setEye([s EXCEPT !.info[i].last.axis = qAxis,
                                   !.info[i].last.angle = qAngle,
                                   !.scene[i].up =
                                       applyQuaternion[@, qAxis, qAngle[1]]],
                         i, applyQuaternion[eye, qAxis, qAngle[1]])
        : s \in {self}, d \in {direction}} : TRUE

\* this._objInfo.forEach(info => this.rotate_(direction, info))
RECURSIVE rotateFrom(_, _, _)
rotateFrom(self, direction, i) ==
    CHOOSE r \in {
        IF i \notin DOMAIN s.info THEN s
        ELSE rotateFrom(rotate_(s, direction, i), direction, i + 1)
        : s \in {self}} : TRUE

\* PanControl.pan_(change, info)
pan_(self, change, i) ==
    CHOOSE r \in {
        LET eye == _getEye(s, i)
            k == QMul(length[eye], speed)
            up == s.scene[i].up
            shift == add[setLength[cross[eye, up], QMul(c.x, k)],
                         setLength[up, QMul(c.y, k)]]
        IN  _setEye([s EXCEPT !.info[i].target = add[@, shift]], i, eye)
        : s \in {self}, c \in {change}} : TRUE

\* this._objInfo.forEach(info => this.pan_(change, info))
RECURSIVE panFrom(_, _, _)
panFrom(self, change, i) ==
    CHOOSE r \in {
        IF i \notin DOMAIN s.info THEN s
        ELSE panFrom(pan_(s, change, i), change, i + 1)
        : s \in {self}} : TRUE

\* a faulty zoom_: the eye beyond maxDistance is not cut
zoom_NoMax(self, capture, i) ==
    CHOOSE r \in {
        LET drag == QAdd(One, QMul(QSub(s.mouse.curr.y, s.mouse.prev.y), speed))
            factor == IF capture THEN drag ELSE QDiv(s.touchStart_, s.touchEnd_)
            d == IF capture /\ (drag = One \/ QLe(drag, Zero)) THEN Zero
                 ELSE factor
            s1 == [s EXCEPT !.touchStart_ = IF capture THEN @ ELSE s.touchEnd_,
                            !.calls = Append(@, [name |-> "zoom_",
                                                 object |-> i,
                                                 d |-> factor,
                                                 applied |-> Truthy(d),
                                                 eye |-> _getEye(s, i)])]
            scaled == multiplyScalar[_getEye(s, i), d]
            under == QLt(lengthSq[scaled], QMul(minDistance, minDistance))
            eye == IF under THEN setLength[scaled, minDistance] ELSE scaled
        IN  IF Truthy(d)
            THEN [s |-> _setEye(s1, i, eye), undefined |-> under]
            ELSE [s |-> s1, undefined |-> FALSE]
        : s \in {self}} : TRUE

\* ZoomControl.zoom_(capture, info): the state after it, and whether it
\* returned undefined (the eye was cut to maxDistance or minDistance).  The
\* call is noted in calls with the factor it computed, whether it made the
\* step, and the eye it read
zoom_(self, capture, i) ==
    CHOOSE r \in {
        LET drag == QAdd(One, QMul(QSub(s.mouse.curr.y, s.mouse.prev.y), speed))
            factor == IF capture THEN drag ELSE QDiv(s.touchStart_, s.touchEnd_)
            d == IF capture /\ (drag = One \/ QLe(drag, Zero)) THEN Zero
                 ELSE factor
            s1 == [s EXCEPT !.touchStart_ = IF capture THEN @ ELSE s.touchEnd_,
                            !.calls = Append(@, [name |-> "zoom_",
                                                 object |-> i,
                                                 d |-> factor,
                                                 applied |-> Truthy(d),
                                                 eye |-> _getEye(s, i)])]
            scaled == multiplyScalar[_getEye(s, i), d]
            over == QLt(QMul(maxDistance, maxDistance), lengthSq[scaled])
            capped == IF over THEN setLength[scaled, maxDistance] ELSE scaled
            under == QLt(lengthSq[capped], QMul(minDistance, minDistance))
            eye == IF under THEN setLength[capped, minDistance] ELSE capped
        IN  IF Truthy(d)
            THEN [s |-> _setEye(s1, i, eye), undefined |-> over \/ under]
            ELSE [s |-> s1, undefined |-> FALSE]
        : s \in {self}} : TRUE

\* the forEach of doZoom_: the state, and f, set to 0 once zoom_ returns
\* undefined
RECURSIVE zoomFrom(_, _, _, _)
zoomFrom(self, capture, i, f) ==
    CHOOSE r \in {
        IF i \notin DOMAIN s.info THEN [s |-> s, f |-> f]
        ELSE zoomFrom(z.s, capture, i + 1, IF z.undefined THEN Zero ELSE f)
        : s \in {self},
          z \in {IF i \in DOMAIN self.info THEN zoom_(self, capture, i)
                 ELSE [s |-> self, undefined |-> FALSE]}} : TRUE

\* a faulty doZoom_: f is not set to 0 when zoom_ returns undefined
doZoom_Damped(self, capture) ==
    CHOOSE r \in {
        IF Truthy(dynamicDampingFactor)
        THEN [z.s EXCEPT !.mouse.prev.y =
                 QAdd(@, QMul(dynamicDampingFactor,
                              QSub(z.s.mouse.curr.y, @)))]
        ELSE _saveMove(z.s, <<>>)
        : z \in {zoomFrom([self EXCEPT !.calls =
                               Append(@, [name |-> "doZoom_",
                                          mouse |-> self.mouse])],
                          capture, 1, dynamicDampingFactor)}} : TRUE

\* ZoomControl.doZoom_(capture); the call is noted in calls with the mouse
\* it read
doZoom_(self, capture) ==
    CHOOSE r \in {
        IF Truthy(z.f)
        THEN [z.s EXCEPT !.mouse.prev.y =
                 QAdd(@, QMul(z.f, QSub(z.s.mouse.curr.y, @)))]
        ELSE _saveMove(z.s, <<>>)
        : z \in {zoomFrom([self EXCEPT !.calls =
                               Append(@, [name |-> "doZoom_",
                                          mouse |-> self.mouse])],
                          capture, 1, dynamicDampingFactor)}} : TRUE

\* RotationControl._doMove(x, y)
RotationDoMove(self, x, y) ==
    CHOOSE r \in {
        rotateFrom(s, Vector3(QSub(s.mouse.curr.x, s.mouse.prev.x),
                              QSub(s.mouse.curr.y, s.mouse.prev.y), Zero), 1)
        : s \in {_saveMove(_saveMove(self, <<>>), <<x, y>>)}} : TRUE

\* PanControl._doMove(x, y)
PanDoMove(self, x, y) ==
    CHOOSE r \in {
        LET f == dynamicDampingFactor
            change == Vector3(QSub(s.mouse.curr.x, s.mouse.prev.x),
                              QSub(s.mouse.curr.y, s.mouse.prev.y), Zero)
        IN  IF ~Truthy(lengthSq[change]) THEN s
            ELSE IF Truthy(f)
            THEN [panFrom(s, change, 1) EXCEPT !.mouse.prev =
                     Vector2(QAdd(@.x, QMul(change.x, f)),
                             QAdd(@.y, QMul(change.y, f)))]
            ELSE _saveMove(panFrom(s, change, 1), <<>>)
        : s \in {_saveMove(self, <<x, y>>)}} : TRUE

\* ZoomControl._doMove(x, y)
ZoomDoMove(self, x, y) ==
    CHOOSE r \in {doZoom_(s, s.mouse.capture)
                  : s \in {_saveMove(self, <<x, y>>)}} : TRUE

\* _doMove(x, y), as the controller's class defines it
_doMove(self, x, y) ==
    CASE kind = "Rotation" -> RotationDoMove(self, x, y)
      [] kind = "Pan" -> PanDoMove(self, x, y)
      [] kind = "Zoom" -> ZoomDoMove(self, x, y)
      [] OTHER -> _saveMove(self, <<x, y>>)

\* ZoomControl.distanceCalc_(touches, opt_start)
distanceCalc_(self, touches, start) ==
    CHOOSE r \in {
        LET x == touches[1][1] - touches[2][1]
            y == touches[1][2] - touches[2][2]
            d == QSqrt(Num(x * x + y * y))
        IN  [s EXCEPT !.touchEnd_ = d, !.touchStart_ = IF start THEN d ELSE @]
        : s \in {LET mx == (touches[1][1] + touches[2][1]) \div 2
                     my == (touches[1][2] + touches[2][2]) \div 2
                 IN  IF start THEN _startMove(self, mx, my)
                     ELSE _doMove(self, mx, my)}} : TRUE

\* [.00025, .01, .025][e.deltaMode] || .00025
WheelUnit(deltaMode) ==
    CASE deltaMode = 1 -> Q(1, 100)
      [] deltaMode = 2 -> Q(1, 40)
      [] OTHER -> Q(1, 4000)

\* ZoomControl.mouseWheel_(e)
mouseWheel_(self, deltaY, deltaMode) ==
    CHOOSE r \in {
        _stopMove(doZoom_(_dispatchMove(
            [s EXCEPT !.mouse.prev.y =
                          QSub(@, QMul(Num(deltaY), WheelUnit(deltaMode)))],
            "movestart"), TRUE))
        : s \in {self}} : TRUE

(* ---------------------------- the handlers ---------------------------- *)

\* TouchControl.notImplemented_()
notImplemented_(s) == [s EXCEPT !.thrown = TRUE]

\* mouseDown_(e): b is e.button, (x, y) is (e.pageX, e.pageY)
mouseDown_(self, b, x, y) ==
    IF b # button_ THEN self
    ELSE _dispatchMove(_startMove([self EXCEPT !.mouse.capture = TRUE], x, y),
                       "movestart")

\* a faulty mouseMove_: capture is not tested
mouseMove_Always(self, x, y) == _doMove(self, x, y)

\* mouseMove_(e)
mouseMove_(self, x, y) ==
    CHOOSE r \in {IF s.mouse.capture THEN _doMove(s, x, y) ELSE s
                  : s \in {self}} : TRUE

\* a faulty mouseUp_: capture ends and _stopMove is not called
mouseUp_NoStop(self, b) == [self EXCEPT !.mouse.capture = FALSE]

\* mouseUp_(e): e.button is not read
mouseUp_(self, b) ==
    CHOOSE r \in {IF ~s.mouse.capture THEN s
                  ELSE _stopMove([s EXCEPT !.mouse.capture = FALSE])
                  : s \in {self}} : TRUE

\* _touchStart(e), as the controller's class defines it; touches is
\* e.touches, a sequence of <<pageX, pageY>>
_touchStart(self, touches) ==
    CASE kind = "Rotation" ->
            IF Len(touches) # 1 THEN self
            ELSE _dispatchMove(_startMove(self, touches[1][1], touches[1][2]),
                               "movestart")
      [] kind = "Zoom" ->
            IF Len(touches) <= 1 THEN self
            ELSE _dispatchMove(distanceCalc_(self, touches, TRUE), "movestart")
      [] OTHER -> _dispatchMove(self, "movestart")

\* _touchMove(e)
_touchMove(self, touches) ==
    CASE kind = "Rotation" ->
            IF Len(touches) = 1
            THEN _doMove(self, touches[1][1], touches[1][2]) ELSE self
      [] kind = "Zoom" ->
            IF 1 < Len(touches) THEN distanceCalc_(self, touches, FALSE)
            ELSE self
      [] OTHER -> notImplemented_(self)

\* _touchEnd(e)
_touchEnd(self, touches) ==
    CASE kind = "Rotation" ->
            IF Len(touches) # 1 THEN self
            ELSE _stopMove(_startMove(self, touches[1][1], touches[1][2]))
      [] kind = "Zoom" ->
            IF 1 < Len(touches) THEN _stopMove(self) ELSE self
      [] OTHER -> notImplemented_(self)

\* reset(), for the objects from i on
RECURSIVE resetFrom(_, _)
resetFrom(self, i) ==
    CHOOSE r \in {
        IF i \notin DOMAIN s.info THEN s
        ELSE resetFrom([_checkChange([s EXCEPT
                                         !.scene[i].position = s.info[i].pos,
                                         !.scene[i].up = s.info[i].up], i)
                          EXCEPT !.info[i].last.pos = s.info[i].pos], i + 1)
        : s \in {self}} : TRUE

reset(self) == resetFrom(self, 1)

\* getTarget(obj): what it returns
getTarget(obj) ==
    LET info == getObjectInfo_(obj)
    IN  IF info # <<>> THEN <<_objInfo[info[1]].target>> ELSE <<>>

\* setTarget(obj, target): the infos after it, and what it returns
setTarget(obj, target) ==
    LET info == getObjectInfo_(obj)
    IN  IF info # <<>>
        THEN [info |-> [_objInfo EXCEPT ![info[1]].target = target],
              ret |-> <<_objInfo[info[1]].target>>]
        ELSE [info |-> _objInfo, ret |-> <<>>]

\* a faulty set button: the listener is never removed
setButton_NoRemove(b, installed, btn) ==
    [button_ |-> btn, contextMenu |-> installed \/ btn = right]

\* set button(btn), from bound button b with the listener installed or not:
\* the bound button and the listener after it
setButton(b, installed, btn) ==
    IF btn = b THEN [button_ |-> b, contextMenu |-> installed]
    ELSE [button_ |-> btn,
          contextMenu |-> IF btn = right THEN TRUE
                          ELSE IF b = right THEN FALSE ELSE installed]

(* ------------------------------ the model ------------------------------ *)

\* the button each constructor assigns after MouseControl's has bound left
ConstructorButton(k) ==
    CASE k = "Pan" -> right [] k = "Zoom" -> middle [] OTHER -> left

\* the window the controller is built in: dom_ is document.body
Window == [innerWidth |-> 2, innerHeight |-> 2]

\* resize_(), dom_ being document.body
resize_(r) == [r EXCEPT !.width = Window.innerWidth, !.height = Window.innerHeight]

NoGesture == [phase |-> "idle", moves |-> 0, starts |-> 0, stops |-> 0, changes |-> 0]

\* The state after construction, the host having set the public fields
Init ==
    /\ kind \in Kinds
    /\ speed = One
    /\ dynamicDampingFactor \in DampingFactors(kind)
    /\ \E r \in DistanceRanges(kind) : minDistance = r[1] /\ maxDistance = r[2]
    /\ LET b == setButton(left, FALSE, ConstructorButton(kind))
       IN  button_ = b.button_ /\ contextMenu = b.contextMenu
    /\ rect_ = resize_([left |-> 0, top |-> 0, width |-> 0, height |-> 0])
    /\ _mouse = [capture |-> FALSE, curr |-> Vector2(Zero, Zero),
                 prev |-> Vector2(Zero, Zero)]
    /\ \E n \in 1..MaxObjects :
          /\ scene = [i \in 1..n |-> [position |-> InitialPosition(i),
                                      up |-> InitialUp]]
          /\ _objInfo = [i \in 1..n |->
                            [last |-> [pos |-> InitialPosition(i),
                                       angle |-> Zero, axis |-> Origin],
                             pos |-> InitialPosition(i),
                             up |-> InitialUp,
                             target |-> Origin]]
    /\ touchStart_ = Zero
    /\ touchEnd_ = Zero
    /\ op = [name |-> "constructor", args |-> <<>>]
    /\ out = <<>>
    /\ calls = <<>>
    /\ ret = <<>>
    /\ thrown = FALSE
    /\ lifecycle = "none"
    /\ steps = 0
    /\ gesture = NoGesture

\* the last moveStart or moveStop among the events e, else l
RECURSIVE LastLifecycle(_, _)
LastLifecycle(l, e) ==
    IF e = <<>> THEN l
    ELSE LastLifecycle(IF Head(e).type \in {"movestart", "movestop"}
                       THEN Head(e).type ELSE l, Tail(e))

\* the events of type ty among the events e
RECURSIVE Count(_, _)
Count(e, ty) ==
    IF e = <<>> THEN 0
    ELSE (IF Head(e).type = ty THEN 1 ELSE 0) + Count(Tail(e), ty)

\* a handler has run and left s
Effect(self, name, args) ==
    \E s \in {self} :
        /\ _mouse' = s.mouse
        /\ _objInfo' = s.info
        /\ scene' = s.scene
        /\ touchStart_' = s.touchStart_
        /\ touchEnd_' = s.touchEnd_
        /\ out' = s.out
        /\ calls' = s.calls
        /\ thrown' = s.thrown
        /\ ret' = <<>>
        /\ op' = [name |-> name, args |-> args]
        /\ lifecycle' = LastLifecycle(lifecycle, s.out)
        /\ UNCHANGED <<config, button_, contextMenu>>

\* a behaviour is up to MaxSteps calls of handlers and methods
Ready == steps < MaxSteps

Counted ==
    /\ steps' = steps + 1
    /\ UNCHANGED gesture

Handled(self, name, args) == Effect(self, name, args) /\ Counted

\* The motion the model can compute: every object's eye and up lie along an
\* axis, and a RotationControl turns by whole quarter turns about an axis
InLattice(s, x, y) ==
    LET s1 == _saveMove(_saveMove(s, <<>>), <<x, y>>)
        direction == Vector3(QSub(s1.mouse.curr.x, s1.mouse.prev.x),
                             QSub(s1.mouse.curr.y, s1.mouse.prev.y), Zero)
    IN  /\ \A i \in DOMAIN s.info :
              AxisAligned(_getEye(s, i)) /\ AxisAligned(s.scene[i].up)
        /\ kind = "Rotation" =>
              /\ AxisAligned(direction)
              /\ IsInt(direction.x) /\ IsInt(direction.y) /\ IsInt(speed)
              /\ direction = Origin /\ Truthy(dynamicDampingFactor) =>
                     \A i \in DOMAIN s.info :
                         IsInt(QMul(s.info[i].last.angle,
                                    QSqrt(QSub(One, dynamicDampingFactor))))

Points == Coords \X Coords

\* the contacts of a touch event: up to MaxTouches points of a row, listed
\* from left to right
TouchPoints == {<<x, 1>> : x \in 0..(MaxCoord + 1)}
TouchLists ==
    {t \in UNION {[1..n -> TouchPoints] : n \in 0..MaxTouches} :
        \A i, j \in DOMAIN t : i < j => t[i][1] < t[j][1]}

MouseDown ==
    \E b \in ButtonEnum, p \in Points :
        /\ Ready
        /\ Handled(mouseDown_(Self, b, p[1], p[2]), "mousedown", <<b, p[1], p[2]>>)

MouseMove ==
    \E p \in Points :
        /\ Ready
        /\ InLattice(Self, p[1], p[2])
        /\ Handled(mouseMove_(Self, p[1], p[2]), "mousemove", <<p[1], p[2]>>)

MouseUp ==
    \E b \in ButtonEnum :
        /\ Ready
        /\ Handled(mouseUp_(Self, b), "mouseup", <<b>>)

MouseWheel ==
    \E e \in WheelEvents :
        /\ Ready
        /\ kind = "Zoom"
        /\ InLattice(Self, 0, 0)
        /\ Handled(mouseWheel_(Self, e[1], e[2]), "wheel", e)

TouchStart ==
    \E t \in TouchLists :
        /\ Ready
        /\ kind \in TouchKinds
        /\ Handled(_touchStart(Self, t), "touchstart", t)

TouchMove ==
    \E t \in TouchLists :
        /\ Ready
        /\ kind \in TouchKinds
        /\ InLattice(Self, IF t = <<>> THEN 0 ELSE t[1][1], 1)
        /\ Handled(_touchMove(Self, t), "touchmove", t)

TouchEnd ==
    \E t \in TouchLists :
        /\ Ready
        /\ kind \in TouchKinds
        /\ Handled(_touchEnd(Self, t), "touchend", t)

Reset ==
    /\ Ready
    /\ Handled(reset(Self), "reset", <<>>)

\* a call of the host that runs no handler: what it returns
Called(name, args, result) ==
    /\ ret' = result
    /\ op' = [name |-> name, args |-> args]
    /\ out' = <<>>
    /\ calls' = <<>>
    /\ thrown' = FALSE
    /\ Counted
    /\ UNCHANGED <<config, _mouse, touchStart_, touchEnd_, lifecycle>>

GetTarget ==
    \E obj \in Objects \cup {Stranger} :
        /\ Ready
        /\ Called("getTarget", <<obj>>, getTarget(obj))
        /\ UNCHANGED <<button_, contextMenu, _objInfo, scene>>

SetTarget ==
    \E obj \in Objects \cup {Stranger}, target \in HostPoints :
        /\ Ready
        /\ _objInfo' = setTarget(obj, target).info
        /\ Called("setTarget", <<obj, target>>, setTarget(obj, target).ret)
        /\ UNCHANGED <<button_, contextMenu, scene>>

SetButton ==
    \E btn \in ButtonEnum :
        /\ Ready
        /\ button_' = setButton(button_, contextMenu, btn).button_
        /\ contextMenu' = setButton(button_, contextMenu, btn).contextMenu
        /\ Called("button", <<btn>>, <<btn>>)
        /\ UNCHANGED <<_objInfo, scene>>

\* The host, or another controller that shares the object, moves it
HostMove ==
    \E i \in Objects, p \in HostPoints :
        /\ Ready
        /\ scene[i].position # p
        /\ scene' = [scene EXCEPT ![i].position = p]
        /\ Called("host", <<i, p>>, <<>>)
        /\ UNCHANGED <<button_, contextMenu, _objInfo>>

Next ==
    \/ MouseDown
    \/ MouseMove
    \/ MouseUp
    \/ MouseWheel
    \/ TouchStart
    \/ TouchMove
    \/ TouchEnd
    \/ Reset
    \/ GetTarget
    \/ SetTarget
    \/ SetButton
    \/ HostMove

Spec == Init /\ [][Next]_vars

(* ------------------------ one gesture of the pointer ------------------- *)

\* moves of one gesture
MaxMoves == 2

\* the gesture so far, the handler of this step having dispatched out'
Tally(phase, moved) ==
    [phase |-> phase,
     moves |-> gesture.moves + moved,
     starts |-> gesture.starts + Count(out', "movestart"),
     stops |-> gesture.stops + Count(out', "movestop"),
     changes |-> gesture.changes + Count(out', "movechange")]

\* a press of the bound button
GesturePress ==
    \E p \in Points :
        /\ gesture.phase = "idle"
        /\ Effect(mouseDown_(Self, button_, p[1], p[2]), "mousedown",
                  <<button_, p[1], p[2]>>)
        /\ gesture' = Tally("pressed", 0)
        /\ UNCHANGED steps

GestureMove ==
    \E p \in Points :
        /\ gesture.phase = "pressed"
        /\ gesture.moves < MaxMoves
        /\ InLattice(Self, p[1], p[2])
        /\ Effect(mouseMove_(Self, p[1], p[2]), "mousemove", <<p[1], p[2]>>)
        /\ gesture' = Tally("pressed", 1)
        /\ UNCHANGED steps

\* the release of the bound button
GestureRelease ==
    /\ gesture.phase = "pressed"
    /\ Effect(mouseUp_(Self, button_), "mouseup", <<button_>>)
    /\ gesture' = Tally("released", 0)
    /\ UNCHANGED steps

NextGesture ==
    \/ GesturePress
    \/ GestureMove
    \/ GestureRelease

\* press, up to MaxMoves moves, release, on a behaviour as constructed
InitGesture == Init /\ kind \in Behaviours

SpecGesture == InitGesture /\ [][NextGesture]_vars

(* ----------------------------- properties ----------------------------- *)

\* the square of the distance of object i from its target
DistanceSq(i) == lengthSq[sub[scene[i].position, _objInfo[i].target]]

\* what a zoom_ call c asked for: the square of d * L
RequestedSq(c) == QMul(QMul(c.d, c.d), lengthSq[c.eye])

Over(c) == QLt(QMul(maxDistance, maxDistance), RequestedSq(c))
Under(c) == QLt(RequestedSq(c), QMul(minDistance, minDistance))

\* the zoom_ calls of the last handler that made their step
ZoomSteps == {k \in DOMAIN calls : calls[k].name = "zoom_" /\ calls[k].applied}

\* C1, as amended: a press of the bound button, N moves and the release
\* dispatch exactly one moveStart and exactly one moveStop, and at most one
\* moveChange for each move and each registered object: N * K in all (the
\* press and the release dispatch no moveChange).
C1_GestureEvents ==
    gesture.phase = "released" =>
        /\ gesture.starts = 1
        /\ gesture.stops = 1
        /\ gesture.changes <= gesture.moves * Cardinality(Objects)

\* C1's case: a gesture of MaxMoves moves on several objects, each move
\* having moved every object.
C1_Witness ==
    /\ gesture.phase = "released"
    /\ Cardinality(Objects) > 1
    /\ gesture.moves = MaxMoves
    /\ gesture.changes = MaxMoves * Cardinality(Objects)

\* C1 as the specification states it: the moveChange events of the gesture
\* are at most N + 1.
C1_AsStated ==
    gesture.phase = "released" =>
        /\ gesture.starts = 1
        /\ gesture.stops = 1
        /\ gesture.changes <= gesture.moves + 1

\* moveStart and moveStop alternate in the events e, l being the last of
\* them dispatched before
RECURSIVE Alternates(_, _)
Alternates(l, e) ==
    IF e = <<>> THEN TRUE
    ELSE CASE Head(e).type = "movestart" ->
                  l # "movestart" /\ Alternates("movestart", Tail(e))
           [] Head(e).type = "movestop" ->
                  l = "movestart" /\ Alternates("movestop", Tail(e))
           [] OTHER -> Alternates(l, Tail(e))

\* C2: in the events of one controller moveStart and moveStop alternate,
\* beginning with moveStart: no moveStart follows a moveStart without a
\* moveStop between them, and no moveStop comes without a moveStart that no
\* moveStop has matched.
C2_Alternation == [][Alternates(lifecycle, out')]_vars

\* C3: reset() leaves every registered object at the position and up
\* snapshotted at registration, and dispatches a moveChange for an object if
\* and only if its position before reset() was further than EPS (squared
\* distance) from the snapshot.
C3_Reset ==
    [][op'.name = "reset" =>
          \A i \in Objects :
              /\ scene'[i].position = _objInfo[i].pos
              /\ scene'[i].up = _objInfo[i].up
              /\ (\E k \in DOMAIN out' :
                      out'[k].type = "movechange" /\ out'[k].object = i)
                 <=> ~QLe(distanceToSquared[scene[i].position, _objInfo[i].pos],
                          EPS)]_vars

\* C4, as amended: a zoom step made with factor d on an object whose eye has
\* length L > 0 leaves the object at exactly maxDistance from its target if
\* d * L exceeds maxDistance, and at exactly minDistance if d * L is below
\* minDistance.
C4_Clamp ==
    \A k \in ZoomSteps :
        calls[k].eye # Origin =>
            /\ Over(calls[k]) =>
                   DistanceSq(calls[k].object) = QMul(maxDistance, maxDistance)
            /\ Under(calls[k]) =>
                   DistanceSq(calls[k].object) = QMul(minDistance, minDistance)

\* C4's case: a step that asked for more than maxDistance, on an object away
\* from its target.
C4_Witness ==
    \E k \in ZoomSteps :
        /\ calls[k].eye # Origin
        /\ Over(calls[k])
        /\ DistanceSq(calls[k].object) = QMul(maxDistance, maxDistance)

\* C4 as the specification states it: for every L >= 0, L = 0 included.
C4_AsStated ==
    \A k \in ZoomSteps :
        /\ Over(calls[k]) =>
               DistanceSq(calls[k].object) = QMul(maxDistance, maxDistance)
        /\ Under(calls[k]) =>
               DistanceSq(calls[k].object) = QMul(minDistance, minDistance)

\* the last handler's zoom step cut the eye of an object
Clamped == \E k \in ZoomSteps : Over(calls[k]) \/ Under(calls[k])

\* C5: after a zoom step over the registered objects, if an object was
\* clamped at minDistance or maxDistance then previous equals current; if
\* none was and dynamicDampingFactor f is not zero then current and
\* previous.x are as the step found them and previous.y has become
\* previous.y + f * (current.y - previous.y).
C5_Damping ==
    \A k \in DOMAIN calls :
        calls[k].name = "doZoom_" =>
            LET m == calls[k].mouse
                f == dynamicDampingFactor
            IN  /\ Clamped => _mouse.prev = _mouse.curr
                /\ ~Clamped /\ Truthy(f) =>
                       /\ _mouse.curr = m.curr
                       /\ _mouse.prev.x = m.prev.x
                       /\ _mouse.prev.y =
                              QAdd(m.prev.y, QMul(f, QSub(m.curr.y, m.prev.y)))

\* C5's case: a damped zoom step over two objects that clamped one of them
\* and not the other, the pointer having moved.
C5_Witness ==
    /\ Truthy(dynamicDampingFactor)
    /\ \E k \in DOMAIN calls :
           calls[k].name = "doZoom_" /\ calls[k].mouse.prev # calls[k].mouse.curr
    /\ \E j, k \in ZoomSteps :
           /\ Over(calls[j]) \/ Under(calls[j])
           /\ ~(Over(calls[k]) \/ Under(calls[k]))
    /\ _mouse.prev = _mouse.curr

\* C6: for a ZoomControl, the touch-end that follows a touch-start of two
\* or more contacts and leaves at most one contact dispatches moveStop.
C6_TouchEnd ==
    [][/\ kind = "Zoom"
       /\ op.name = "touchstart" /\ Len(op.args) >= 2
       /\ op'.name = "touchend" /\ Len(op'.args) <= 1
       => \E k \in DOMAIN out' : out'[k].type = "movestop"]_vars

\* C7: after a press of the bound button at (x, y) the controller is
\* capturing, previous and current both equal the normalization of (x, y),
\* and the press has dispatched exactly one event, a moveStart that carries
\* them.
C7_Press ==
    op.name = "mousedown" /\ op.args[1] = button_ =>
        /\ _mouse.capture
        /\ _mouse.curr = _offsetCalc(op.args[2], op.args[3])
        /\ _mouse.prev = _mouse.curr
        /\ out = <<[type |-> "movestart", curr |-> _mouse.curr,
                    prev |-> _mouse.prev]>>

\* C8: while the controller is capturing, the release of a button other
\* than the bound one leaves it capturing and dispatches no moveStop.
C8_OtherRelease ==
    [][_mouse.capture /\ op'.name = "mouseup" /\ op'.args[1] # button_ =>
          /\ _mouse'.capture
          /\ \A k \in DOMAIN out' : out'[k].type # "movestop"]_vars

\* C9: getTarget(obj) and setTarget(obj, target) with an object that is not
\* registered return nothing, throw nothing, dispatch no event, and leave
\* the target, position and last position of every registered object as
\* they were.
C9_Unregistered ==
    [][op'.name \in {"getTarget", "setTarget"} /\ op'.args[1] \notin Objects =>
          /\ ret' = <<>>
          /\ ~thrown'
          /\ out' = <<>>
          /\ UNCHANGED <<_objInfo, scene>>]_vars

\* C9's case: setTarget has been called with an unregistered object, on a
\* controller whose objects the host had moved before.
C9_Witness ==
    /\ op.name = "setTarget"
    /\ op.args[1] \notin Objects
    /\ \E i \in Objects : scene[i].position # _objInfo[i].pos

\* C10: after construction and after every assignment to button, the
\* contextmenu listener is installed if and only if the bound button is the
\* right one.
C10_ContextMenu == contextMenu <=> button_ = right

\* C10's case: a PanControl, constructed with the right button bound, has
\* been assigned another button.
C10_Witness ==
    /\ kind = "Pan"
    /\ op.name = "button"
    /\ button_ # right
    /\ ~contextMenu

\* C11: a touch event whose hook the class does not override (a controller
\* of the touch dispatch layer itself) throws and dispatches no event.
C11_Hooks ==
    kind = "Touch" /\ op.name \in {"touchstart", "touchmove", "touchend"} =>
        thrown /\ out = <<>>

\* the moveStop events of the last handler carry previous equal to current
StopSaved == \A k \in DOMAIN out :
                 out[k].type = "movestop" => out[k].prev = out[k].curr

\* C12, as amended: the release that ends capture dispatches one moveStop
\* with capture off; previous equals current in it for a RotationControl,
\* and for the other behaviours when dynamicDampingFactor is 0.
C12_Release ==
    [][_mouse.capture /\ op'.name = "mouseup" /\ kind \in Behaviours =>
          /\ ~_mouse'.capture
          /\ Count(out', "movestop") = 1
          /\ kind = "Rotation" \/ ~Truthy(dynamicDampingFactor) =>
                 StopSaved' /\ _mouse'.prev = _mouse'.curr]_vars

\* C12's case: a RotationControl is released after a move that turned an
\* object.
C12_Witness ==
    /\ kind = "Rotation"
    /\ op.name = "mouseup"
    /\ Count(out, "movestop") = 1
    /\ _mouse.prev = _mouse.curr
    /\ \E i \in Objects : /\ scene[i].position # _objInfo[i].pos
                          /\ _objInfo[i].last.pos = scene[i].position

\* C12 as the specification states it: for each behaviour and any
\* dynamicDampingFactor.
C12_AsStated ==
    [][_mouse.capture /\ op'.name = "mouseup" /\ kind \in Behaviours =>
          /\ ~_mouse'.capture
          /\ Count(out', "movestop") = 1
          /\ StopSaved' /\ _mouse'.prev = _mouse'.curr]_vars

\* C13: a move event at (x, y) while capturing leaves current at the
\* normalization of (x, y), x = 0 and y = 0 included.
C13_Move ==
    op.name = "mousemove" /\ _mouse.capture =>
        _mouse.curr = _offsetCalc(op.args[1], op.args[2])

\* the zoom_ calls of the last handler
ZoomCalls == {k \in DOMAIN calls : calls[k].name = "zoom_"}

\* C14: a pinch step (a touch-move in the touch gesture of a ZoomControl
\* that is not capturing) computes the same factor for every registered
\* object.
C14_SameFactor ==
    /\ kind = "Zoom" /\ ~_mouse.capture
    /\ op.name = "touchmove" /\ lifecycle = "movestart"
    =>
        \A j, k \in ZoomCalls : calls[j].d = calls[k].d

\* C15: the pinch step of a touch-move with two or more contacts divides the
\* distance of the previous touch-start or touch-move by the distance of
\* this touch-move.
C15_SameEvent ==
    [][/\ kind = "Zoom" /\ ~_mouse.capture
       /\ op.name \in {"touchstart", "touchmove"} /\ Len(op.args) >= 2
       /\ op'.name = "touchmove" /\ Len(op'.args) >= 2
       => \A k \in ZoomCalls' :
              calls'[k].object = 1 =>
                  calls'[k].d = QDiv(touchEnd_, touchEnd_')]_vars

\* C16: for a RotationControl, the touch-end that lifts the one contact of
\* a gesture begun by a touch-start of one contact and continued by
\* touch-moves of one contact dispatches the gesture's moveStop.
C16_Lift ==
    [][/\ kind = "Rotation" /\ lifecycle = "movestart"
       /\ op.name \in {"touchstart", "touchmove"} /\ Len(op.args) = 1
       /\ op'.name = "touchend" /\ op'.args = <<>>
       => Count(out', "movestop") = 1]_vars

\* every moveChange among the events e comes after a moveStart that no
\* moveStop has followed, l being the last of the two dispatched before
RECURSIVE Inside(_, _)
Inside(l, e) ==
    IF e = <<>> THEN TRUE
    ELSE CASE Head(e).type = "movechange" ->
                  l = "movestart" /\ Inside(l, Tail(e))
           [] Head(e).type \in {"movestart", "movestop"} ->
                  Inside(Head(e).type, Tail(e))
           [] OTHER -> Inside(l, Tail(e))

\* C17: a moveChange that reset() did not dispatch comes after a moveStart
\* and before the next moveStop.
C17_Inside == [][op'.name # "reset" => Inside(lifecycle, out')]_vars

\* a RotationControl has made a step whose drag delta is zero
ZeroDeltaStep ==
    /\ kind = "Rotation"
    /\ \/ op'.name = "mousemove" /\ _mouse.capture
       \/ op'.name = "touchmove" /\ Len(op'.args) = 1
    /\ _mouse'.curr = _mouse'.prev

\* C18: a rotation step with a zero drag delta leaves, with
\* dynamicDampingFactor 0, the position, the up and the stored angle of
\* every object unchanged and dispatches no moveChange; with
\* dynamicDampingFactor in (0, 1] it leaves every non-zero stored angle
\* strictly smaller in magnitude.
C18_ZeroDelta ==
    [][ZeroDeltaStep =>
          IF ~Truthy(dynamicDampingFactor)
          THEN /\ scene' = scene
               /\ \A i \in Objects :
                      _objInfo'[i].last.angle = _objInfo[i].last.angle
               /\ Count(out', "movechange") = 0
          ELSE \A i \in Objects :
                   LET a == _objInfo[i].last.angle
                       b == _objInfo'[i].last.angle
                   IN  Truthy(a) => QLt(QMul(b, b), QMul(a, a))]_vars

\* C18's case: with dynamicDampingFactor 3/4 a step with zero delta has
\* halved a stored angle of two quarter turns.
C18_Witness ==
    /\ kind = "Rotation"
    /\ dynamicDampingFactor = Q(3, 4)
    /\ op.name = "touchmove" /\ Len(op.args) = 1
    /\ _mouse.curr = _mouse.prev
    /\ \E i \in Objects : _objInfo[i].last.angle = One

\* a pointer event that belongs to no gesture is being handled: a press of
\* a button that is not bound, or a move or a release while not capturing
Stray ==
    \/ op'.name = "mousedown" /\ op'.args[1] # button_
    \/ op'.name \in {"mousemove", "mouseup"} /\ ~_mouse.capture

\* C19: a press of a button other than the bound one, and a move or a
\* release while the controller is not capturing, leave capture, previous,
\* current and every object's position, up, target and last position
\* unchanged and dispatch no event.
C19_Stray ==
    [][Stray => /\ UNCHANGED <<_mouse, scene, _objInfo>>
                /\ out' = <<>>
                /\ ~thrown']_vars

\* C19's case: a move has been handled while not capturing, the pointer
\* having been elsewhere and an object being away from its last position.
C19_Witness ==
    /\ op.name = "mousemove"
    /\ ~_mouse.capture
    /\ _mouse.curr # _offsetCalc(op.args[1], op.args[2])
    /\ \E i \in Objects : _objInfo[i].last.pos # scene[i].position

\* object i is where it was last reported: within EPS, squared distance
Reported(i) == QLe(distanceToSquared[_objInfo[i].last.pos, scene[i].position],
                   EPS)

\* C20: the objects are where they were last reported after construction,
\* and every operation but a move by other code keeps them so; a last
\* position that an event handler changes is carried by a moveChange of that
\* handler.
C20_LastPosition ==
    /\ \A i \in Objects : Reported(i)
    /\ [][(\A i \in Objects : Reported(i)) /\ op'.name # "host" =>
             \A i \in Objects :
                 /\ Reported(i)'
                 /\ _objInfo'[i].last.pos # _objInfo[i].last.pos =>
                        \E k \in DOMAIN out' :
                            /\ out'[k].type = "movechange"
                            /\ out'[k].object = i
                            /\ out'[k].position = _objInfo[i].last.pos]_vars

\* C20's case: the second operation on a controller, a move of the
\* pointer, has moved an object and reported it.
C20_Witness ==
    /\ steps = 2
    /\ op.name = "mousemove"
    /\ \E i \in Objects :
           /\ scene[i].position # _objInfo[i].pos
           /\ _objInfo[i].last.pos = scene[i].position
           /\ \E k \in DOMAIN out :
                  out[k].type = "movechange" /\ out[k].object = i

====
